---- MODULE Spec2Model ----
(***************************************************************************)
(* A model of restls' src/utils.rs: the TLS record codec (TLSCodec and its *)
(* Decoder implementation) and the two relays built on it                  *)
(* (copy_bidirectional, copy_bidirectional_fallback).                      *)
(*                                                                         *)
(* Byte strings are sequences of small naturals.  Offsets are 0-based as   *)
(* in the source; the sequence operators below convert to TLA+'s 1-based   *)
(* indexing.                                                               *)
(***************************************************************************)
EXTENDS Integers, Sequences, FiniteSets, TLC

\* Values an incoming byte takes.  With 0 and 1 a header's length field
\* (bytes 3 and 4, big-endian) declares 0, 1, 256 or 257 payload bytes.
Byte == {0, 1}

\* Longest byte stream the environment delivers to the codec.
MaxStream == 13

\* Most sends (a record, a chunk or a byte each) the two peers of a relay
\* make, in total.
MaxSends == 3

\* Most sends the two peers of the fallback relay make, in total.
MaxChunks == 2

\* Longest secret and longest msg given to xor_bytes.
MaxSecret == 2
MaxMsg == 3

\* Longest source given to a length-prefix helper, its byte values, and the
\* longest destination given to read_length_padded.
MaxBuf == 5
MaxDest == 2
LenByte == {0, 1, 2}

\* The byte values the helpers' inputs are made of.
UtilByte == {0, 1, 90, 255}

\* Payloads of the records the peers send.
Payloads == {<<>>, <<1>>, <<0, 1>>}

\* Values of content_offset the caller passes: nothing skipped (0), the
\* header (5), the header and one payload byte (6).
Offsets == {0, 5, 6}

\* Size of a TLS record header.
HeaderLen == 5

\* Size of copy_bidirectional's out_buf.  The source's 0x2000 is scaled down
\* so that a read from back can fill it.
OutBufSize == 7

VARIABLES
    codec,      \* the TLSCodec: [buf, cursor, enable_codec]
    src,        \* the BytesMut read buffer handed to decode
    panicked,   \* an assert! or a bounds check has aborted the task
    stream,     \* history: every byte appended to src so far
    out,        \* history: the views returned by next_record, in order
    view,       \* the slice returned by the last next_record / raw_buf
    taken,      \* history: next_record calls since the last decode
    lastOp,     \* history: the last operation performed
    lastRes,    \* result of the last decode: "ready" (Some) or "none" (None)
    preSrc,     \* history: src as it was when the last decode started
    fresh,      \* history: a decode cycle has run since the last byte arrived
    \* the relays: inbound is Framed(front socket, codec) with read buffer src
    pc,             \* where the task is
    content_offset, \* copy_bidirectional's parameter / local
    out_buf,        \* copy_bidirectional's working buffer
    readable,       \* inbound Framed: its read buffer may hold a frame
    eof,            \* inbound Framed: the last read returned 0 bytes
    ocodec,         \* outbound Framed (fallback relay): its codec
    osrc,           \* outbound Framed: its read buffer
    oreadable,      \* outbound Framed: its read buffer may hold a frame
    oeof,           \* outbound Framed: the last read returned 0 bytes
    frontRx,        \* bytes the front peer sent that no read has taken yet
    backRx,         \* bytes the back peer sent that no read has taken yet
    frontClosed,    \* the front peer has closed its sending side
    backClosed,     \* the back peer has closed its sending side
    frontTx,        \* bytes written to the front connection
    backTx,         \* bytes written to the back connection
    wbuf,           \* the bytes of the write_all in progress not yet written
    wpart,          \* the write_all in progress has written some of its bytes
    frontSent,      \* history: every byte the front peer sent
    backSent,       \* history: every byte the back peer sent
    backRead,       \* history: every byte read from back by the unwrap relay
    nsent,          \* history: records / chunks the peers sent
    startIn,        \* history: bytes of frontSent the codec took before the relay
    startOut,       \* history: bytes of backSent the codec took before the relay
    heldIn,         \* history: inbound codec's buffer when the relay started
    heldOut,        \* history: outbound codec's buffer when the relay started
    drainLen,       \* history: bytes handed to back before the relay loop
    offset0,        \* history: content_offset as copy_bidirectional was called
    \* the helpers: xor_bytes and the length-prefix readers
    secret,         \* xor_bytes' secret
    msg,            \* xor_bytes' msg
    msg0,           \* history: msg before xor_bytes was first applied
    xors,           \* history: applications of xor_bytes so far
    lbuf,           \* the Buf a length-prefix helper reads: its remaining bytes
    lbuf0,          \* history: lbuf before the helper was called
    called          \* the helper called last and what it gave back

codecVars == <<codec, src, panicked>>
histVars == <<stream, out, view, taken, lastOp, lastRes, preSrc, fresh>>
relayVars == <<pc, content_offset, out_buf, readable, eof, ocodec, osrc, oreadable,
               oeof, frontRx, backRx, frontClosed, backClosed, frontTx, backTx,
               wbuf, wpart, frontSent, backSent, backRead, nsent, startIn,
               startOut, heldIn, heldOut, drainLen, offset0>>
utilVars == <<secret, msg, msg0, xors, lbuf, lbuf0, called>>
vars == <<codecVars, histVars, relayVars, utilVars>>

----------------------------------------------------------------------------
\* Sequence helpers

Min(a, b) == IF a < b THEN a ELSE b

\* s[from..to) with 0-based offsets
Slice(s, from, to) == SubSeq(s, from + 1, to)

\* s[from..]
DropFirst(s, from) == SubSeq(s, from + 1, Len(s))

IsPrefix(p, s) == Len(p) <= Len(s) /\ SubSeq(s, 1, Len(p)) = p

RECURSIVE Concat(_)
Concat(ss) == IF ss = <<>> THEN <<>> ELSE Head(ss) \o Concat(Tail(ss))

----------------------------------------------------------------------------
\* TLSCodec

\* TLSCodec::new
new == [buf |-> <<>>, cursor |-> 0, enable_codec |-> TRUE]

\* mutant of Consumed: the assert! admits a cursor short of the end
ConsumedLax(c) == c.cursor <= Len(c.buf)

\* the assert! of reset and raw_buf
Consumed(c) == c.cursor = Len(c.buf)

\* TLSCodec::reset, past its assert!
reset(c) == [c EXCEPT !.buf = <<>>, !.cursor = 0]

\* the two length bytes of the header at offset at of s, big-endian
LengthField(s, at) == s[at + 3 + 1] * 256 + s[at + 4 + 1]

\* mutant of peek_record_length: the header's own 5 bytes are not counted
peek_record_length_payload(c) == LengthField(c.buf, c.cursor)

\* TLSCodec::peek_record_length
peek_record_length(c) == HeaderLen + LengthField(c.buf, c.cursor)

\* next_record indexes buf[cursor + 3], buf[cursor + 4] and slices
\* buf[start..cursor]: each is bounds-checked
NextRecordInBounds(c) ==
    /\ c.cursor + 4 < Len(c.buf)
    /\ c.cursor + peek_record_length(c) <= Len(c.buf)

\* TLSCodec::next_record: the codec it leaves
next_record(c) == [c EXCEPT !.cursor = @ + peek_record_length(c)]

\* TLSCodec::next_record: the slice it returns
NextRecordView(c) == Slice(c.buf, c.cursor, c.cursor + peek_record_length(c))

\* TLSCodec::has_next
has_next(c) == c.cursor < Len(c.buf)

\* mutant of skip_to_end: the cursor is left where it is
skip_to_end_forgotten(c) == c

\* TLSCodec::skip_to_end
skip_to_end(c) == [c EXCEPT !.cursor = Len(c.buf)]

\* TLSCodec::raw_buf, past its assert!
raw_buf(c) == c.buf

\* TLSCodec::has_content
has_content(c) == c.buf # <<>>

----------------------------------------------------------------------------
\* Decoder for TLSCodec

\* mutant of Scan: only the low byte of the length field is read
RECURSIVE ScanLowByte(_, _)
ScanLowByte(s, cursor) ==
    IF cursor + HeaderLen < Len(s)
    THEN LET record_len == s[cursor + 4 + 1]
         IN  IF Len(s) < cursor + HeaderLen + record_len
             THEN cursor
             ELSE ScanLowByte(s, cursor + HeaderLen + record_len)
    ELSE cursor

\* the while loop of decode: the scan position it ends at, started at cursor
RECURSIVE Scan(_, _)
Scan(s, cursor) ==
    IF cursor + HeaderLen < Len(s)
    THEN LET record_len == LengthField(s, cursor)
         IN  IF Len(s) < cursor + HeaderLen + record_len
             THEN cursor
             ELSE Scan(s, cursor + HeaderLen + record_len)
    ELSE cursor

\* mutant of DecodeEnabled: the whole source is consumed, not only the
\* scanned span
DecodeEnabledDrain(s) ==
    IF Len(s) < HeaderLen
    THEN [res |-> "none", buf |-> <<>>, src |-> s]
    ELSE LET cursor == Scan(s, 0)
         IN  IF cursor = 0
             THEN [res |-> "none", buf |-> <<>>, src |-> s]
             ELSE [res |-> "ready", buf |-> Slice(s, 0, cursor), src |-> <<>>]

\* mutant of DecodeEnabled: the scanned span is copied but left in the source
DecodeEnabledKeep(s) ==
    IF Len(s) < HeaderLen
    THEN [res |-> "none", buf |-> <<>>, src |-> s]
    ELSE LET cursor == Scan(s, 0)
         IN  IF cursor = 0
             THEN [res |-> "none", buf |-> <<>>, src |-> s]
             ELSE [res |-> "ready", buf |-> Slice(s, 0, cursor), src |-> s]

\* decode in enabled mode, after reset: [res, buf, src]
DecodeEnabled(s) ==
    IF Len(s) < HeaderLen
    THEN [res |-> "none", buf |-> <<>>, src |-> s]
    ELSE LET cursor == Scan(s, 0)
         IN  IF cursor = 0
             THEN [res |-> "none", buf |-> <<>>, src |-> s]
             ELSE [res |-> "ready", buf |-> Slice(s, 0, cursor),
                   src |-> DropFirst(s, cursor)]

\* mutant of DecodeDisabled: the records are looked for all the same
DecodeDisabledFramed(s) == DecodeEnabled(s)

\* decode with enable_codec = false, after reset: [res, buf, src]
DecodeDisabled(s) ==
    IF Len(s) = 0
    THEN [res |-> "none", buf |-> <<>>, src |-> s]
    ELSE [res |-> "ready", buf |-> s, src |-> <<>>]

\* mutant of decode: the buffer is not cleared first
decode_uncleared(c, s) ==
    LET r == IF c.enable_codec THEN DecodeEnabled(s) ELSE DecodeDisabled(s)
    IN  [r EXCEPT !.buf = c.buf \o r.buf]

\* decode, past the assert! of the reset it starts with: [res, buf, src]
decode(c, s) == IF c.enable_codec THEN DecodeEnabled(s) ELSE DecodeDisabled(s)

----------------------------------------------------------------------------
\* State shared by the specifications

\* copy_bidirectional's out_buf as declared and pre-seeded (lines 185-186)
OutBufInit == [i \in 1..OutBufSize |-> IF i = 1 THEN 23 ELSE IF i <= 3 THEN 3 ELSE 0]

\* no stream handed to a relay, no traffic
RelayInit ==
    /\ pc = "sniff"
    /\ content_offset = 0
    /\ out_buf = OutBufInit
    /\ readable = FALSE /\ eof = FALSE
    /\ ocodec = new /\ osrc = <<>> /\ oreadable = FALSE /\ oeof = FALSE
    /\ frontRx = <<>> /\ backRx = <<>>
    /\ frontClosed = FALSE /\ backClosed = FALSE
    /\ frontTx = <<>> /\ backTx = <<>> /\ wbuf = <<>> /\ wpart = FALSE
    /\ frontSent = <<>> /\ backSent = <<>> /\ backRead = <<>>
    /\ nsent = 0
    /\ startIn = 0 /\ startOut = 0
    /\ heldIn = <<>> /\ heldOut = <<>>
    /\ drainLen = 0
    /\ offset0 = 0

\* no helper called, nothing to call one on
UtilIdle ==
    /\ secret = <<>> /\ msg = <<>> /\ msg0 = <<>> /\ xors = 0
    /\ lbuf = [data |-> <<>>, split |-> 0] /\ lbuf0 = lbuf
    /\ called = [fn |-> "none"]

HistInit ==
    /\ stream = <<>>
    /\ out = <<>>
    /\ view = <<>>
    /\ taken = 0
    /\ lastOp = "new"
    /\ lastRes = "none"
    /\ preSrc = <<>>
    /\ fresh = TRUE

----------------------------------------------------------------------------
\* The codec driven directly by a caller

Init ==
    /\ codec \in {[new EXCEPT !.enable_codec = e] : e \in BOOLEAN}
    /\ src = <<>>
    /\ panicked = FALSE
    /\ RelayInit
    /\ HistInit
    /\ UtilIdle

\* the transport appends one more byte to the read buffer
Arrive(b) ==
    /\ ~panicked
    /\ Len(stream) < MaxStream
    /\ src' = Append(src, b)
    /\ stream' = Append(stream, b)
    /\ lastOp' = "arrive"
    /\ UNCHANGED <<relayVars, utilVars>>
    /\ preSrc' = <<>>
    /\ fresh' = FALSE
    /\ UNCHANGED <<codec, panicked, out, view, taken, lastRes>>

\* one decode cycle
Decode ==
    /\ ~panicked
    /\ lastOp' = "decode"
    /\ UNCHANGED <<relayVars, utilVars>>
    /\ preSrc' = src
    /\ IF ~Consumed(codec)
       THEN /\ panicked' = TRUE
            /\ UNCHANGED <<codec, src, stream, out, view, taken, lastRes, fresh>>
       ELSE LET r == decode(codec, src)
            IN  /\ codec' = [codec EXCEPT !.buf = r.buf, !.cursor = 0]
                /\ src' = r.src
                /\ lastRes' = r.res
                /\ taken' = 0
                /\ view' = <<>>
                /\ fresh' = TRUE
                /\ UNCHANGED <<panicked, stream, out>>

\* one next_record call
NextRecord ==
    /\ ~panicked
    /\ lastOp' = "next_record"
    /\ UNCHANGED <<relayVars, utilVars>>
    /\ preSrc' = <<>>
    /\ fresh' = fresh
    /\ IF ~NextRecordInBounds(codec)
       THEN /\ panicked' = TRUE
            /\ UNCHANGED <<codec, src, stream, out, view, taken, lastRes>>
       ELSE /\ codec' = next_record(codec)
            /\ view' = NextRecordView(codec)
            /\ out' = Append(out, NextRecordView(codec))
            /\ taken' = taken + 1
            /\ UNCHANGED <<src, panicked, stream, lastRes>>

\* one reset call
Reset ==
    /\ ~panicked
    /\ lastOp' = "reset"
    /\ UNCHANGED <<relayVars, utilVars>>
    /\ preSrc' = <<>>
    /\ fresh' = fresh
    /\ IF ~Consumed(codec)
       THEN /\ panicked' = TRUE
            /\ UNCHANGED <<codec, src, stream, out, view, taken, lastRes>>
       ELSE /\ codec' = reset(codec)
            /\ view' = <<>>
            /\ UNCHANGED <<src, panicked, stream, out, taken, lastRes>>

\* one raw_buf call
RawBuf ==
    /\ ~panicked
    /\ lastOp' = "raw_buf"
    /\ UNCHANGED <<relayVars, utilVars>>
    /\ preSrc' = <<>>
    /\ fresh' = fresh
    /\ IF ~Consumed(codec)
       THEN /\ panicked' = TRUE
            /\ UNCHANGED <<codec, src, stream, out, view, taken, lastRes>>
       ELSE /\ view' = raw_buf(codec)
            /\ UNCHANGED <<codec, src, panicked, stream, out, taken, lastRes>>

Next ==
    \/ \E b \in Byte : Arrive(b)
    \/ Decode
    \/ NextRecord
    \/ Reset
    \/ RawBuf

Spec == Init /\ [][Next]_vars

----------------------------------------------------------------------------
\* The framed streams and the connections under them

\* a TLS record carrying payload p: type 0x17, version 0x03 0x03, length
Record(p) == <<23, 3, 3, Len(p) \div 256, Len(p) % 256>> \o p

\* Framed's poll_next with is_readable set: one decode (decode_eof at eof).
\* ret: "frame" (Some(Ok)), "pending" (is_readable cleared, a read follows),
\* "end" (None), "err" (bytes remaining on stream), "panic"
FramedDecode(c, s, atEof) ==
    IF ~Consumed(c)
    THEN [ret |-> "panic", codec |-> c, src |-> s, readable |-> TRUE]
    ELSE LET r == decode(c, s)
             c2 == [c EXCEPT !.buf = r.buf, !.cursor = 0]
         IN  IF r.res = "ready"
             THEN [ret |-> "frame", codec |-> c2, src |-> r.src, readable |-> TRUE]
             ELSE IF atEof
             THEN [ret |-> IF r.src = <<>> THEN "end" ELSE "err",
                   codec |-> c2, src |-> r.src, readable |-> FALSE]
             ELSE [ret |-> "pending", codec |-> c2, src |-> r.src,
                   readable |-> FALSE]

\* mutant of RunDrain: every record is forwarded from the offset given
RECURSIVE RunDrainSameOffset(_, _)
RunDrainSameOffset(c, off) ==
    IF has_next(c)
    THEN IF ~NextRecordInBounds(c) \/ off > Len(NextRecordView(c))
         THEN [to |-> "panic", codec |-> c, wbuf |-> <<>>, off |-> off]
         ELSE LET data == DropFirst(NextRecordView(c), off)
              IN  IF data = <<>>
                  THEN RunDrainSameOffset(next_record(c), off)
                  ELSE [to |-> "write", codec |-> next_record(c), wbuf |-> data,
                        off |-> off]
    ELSE IF ~Consumed(c)
    THEN [to |-> "panic", codec |-> c, wbuf |-> <<>>, off |-> off]
    ELSE [to |-> "select", codec |-> reset(c), wbuf |-> <<>>, off |-> off]

\* mutant of RunDrain: the record is forwarded whole, header included
RECURSIVE RunDrainWithHeader(_, _)
RunDrainWithHeader(c, off) ==
    IF has_next(c)
    THEN IF ~NextRecordInBounds(c) \/ off > Len(NextRecordView(c))
         THEN [to |-> "panic", codec |-> c, wbuf |-> <<>>, off |-> off]
         ELSE [to |-> "write", codec |-> next_record(c),
               wbuf |-> NextRecordView(c), off |-> off]
    ELSE IF ~Consumed(c)
    THEN [to |-> "panic", codec |-> c, wbuf |-> <<>>, off |-> off]
    ELSE [to |-> "select", codec |-> reset(c), wbuf |-> <<>>, off |-> off]

\* mutant of RunDrain: off counts payload bytes, the header is always cut
RECURSIVE RunDrainPayloadOffset(_, _)
RunDrainPayloadOffset(c, off) ==
    IF has_next(c)
    THEN IF ~NextRecordInBounds(c) \/ HeaderLen + off > Len(NextRecordView(c))
         THEN [to |-> "panic", codec |-> c, wbuf |-> <<>>, off |-> off]
         ELSE LET data == DropFirst(NextRecordView(c), HeaderLen + off)
              IN  IF data = <<>>
                  THEN RunDrainPayloadOffset(next_record(c), 0)
                  ELSE [to |-> "write", codec |-> next_record(c), wbuf |-> data,
                        off |-> off]
    ELSE IF ~Consumed(c)
    THEN [to |-> "panic", codec |-> c, wbuf |-> <<>>, off |-> off]
    ELSE [to |-> "select", codec |-> reset(c), wbuf |-> <<>>, off |-> off]

\* copy_bidirectional's `while has_next() { write_all(&next_record()[off..]) }`
\* followed by reset, run from the loop head to its next suspension: a
\* write_all of no bytes completes at once, so the loop goes on through it.
\* off is the offset of the record taken next; 5 applies after it.
\* to: "write" (write_all(wbuf) awaits), "select" (loop left, codec reset),
\* "panic"
RECURSIVE RunDrain(_, _)
RunDrain(c, off) ==
    IF has_next(c)
    THEN IF ~NextRecordInBounds(c) \/ off > Len(NextRecordView(c))
         THEN [to |-> "panic", codec |-> c, wbuf |-> <<>>, off |-> off]
         ELSE LET data == DropFirst(NextRecordView(c), off)
              IN  IF data = <<>>
                  THEN RunDrain(next_record(c), HeaderLen)
                  ELSE [to |-> "write", codec |-> next_record(c), wbuf |-> data,
                        off |-> off]
    ELSE IF ~Consumed(c)
    THEN [to |-> "panic", codec |-> c, wbuf |-> <<>>, off |-> off]
    ELSE [to |-> "select", codec |-> reset(c), wbuf |-> <<>>, off |-> off]

\* mutant of FrameHeader: the length is written little-endian
FrameHeaderLE(buf, n) == [buf EXCEPT ![4] = n % 256, ![5] = (n \div 256) % 256]

\* out_buf[3..5].copy_from_slice(&(n as u16).to_be_bytes())
FrameHeader(buf, n) == [buf EXCEPT ![4] = (n \div 256) % 256, ![5] = n % 256]

\* outbound.read(&mut out_buf[5..]) having returned the n bytes data
ReadInto(buf, data) ==
    [i \in 1..Len(buf) |->
        IF i > HeaderLen /\ i <= HeaderLen + Len(data) THEN data[i - HeaderLen]
        ELSE buf[i]]

Running == pc # "failed" /\ ~panicked

\* mutant of OnNoFrame: the end of the stream is not taken for a failure
OnNoFrameIgnoreEnd(ret, p) == IF ret \in {"pending", "end"} THEN p ELSE "failed"

\* `e => { e.ok_or(anyhow!(..))??; }`: where the task is once next() has
\* given no frame: ret "pending" leaves it suspended at p, None ("end") and
\* Some(Err) ("err") make it return the failure
OnNoFrame(ret, p) == IF ret = "pending" THEN p ELSE "failed"

\* how many bytes a connection takes next of the write_all in progress: its
\* first byte alone, or all that is left
WriteSizes == IF wpart THEN {Len(wbuf)} ELSE {1, Len(wbuf)}

\* the task is suspended in Framed::next on inbound / on outbound
PollIn == {"sniff_in", "select", "fb_select"}
PollOut == {"sniff_out", "fb_select"}

\* the task is suspended in a write_all to back / to front
WritingBack == {"write_back0", "write_back", "fb_old_back", "fb_write_back"}
WritingFront == {"write_front", "fb_old_front", "fb_write_front"}

----------------------------------------------------------------------------
\* The peers

\* the front peer sends one record
FrontSend(p) ==
    /\ Running /\ ~frontClosed
    /\ nsent < MaxSends
    /\ frontRx' = frontRx \o Record(p)
    /\ frontSent' = frontSent \o Record(p)
    /\ nsent' = nsent + 1
    /\ UNCHANGED <<codecVars, histVars, utilVars, pc, content_offset, out_buf, readable, eof,
                   ocodec, osrc, oreadable, oeof, backRx, frontClosed, backClosed,
                   frontTx, backTx, wbuf, backSent, backRead, startIn, startOut,
                   heldIn, heldOut, drainLen, offset0, wpart>>

\* the plain back peer of the unwrap relay sends one byte
BackSendByte(b) ==
    /\ Running /\ ~backClosed
    /\ pc \notin {"sniff", "sniff_in", "sniff_out"}
    /\ nsent < MaxSends
    /\ backRx' = Append(backRx, b)
    /\ backSent' = Append(backSent, b)
    /\ nsent' = nsent + 1
    /\ UNCHANGED <<codecVars, histVars, utilVars, pc, content_offset, out_buf, readable, eof,
                   ocodec, osrc, oreadable, oeof, frontRx, frontClosed, backClosed,
                   frontTx, backTx, wbuf, frontSent, backRead, startIn, startOut,
                   heldIn, heldOut, drainLen, offset0, wpart>>

\* the front peer closes its sending side
FrontClose ==
    /\ Running /\ ~frontClosed
    /\ frontClosed' = TRUE
    /\ UNCHANGED <<codecVars, histVars, utilVars, pc, content_offset, out_buf, readable, eof,
                   ocodec, osrc, oreadable, oeof, frontRx, backRx, backClosed,
                   frontTx, backTx, wbuf, frontSent, backSent, backRead, nsent,
                   startIn, startOut, heldIn, heldOut, drainLen, offset0, wpart>>

\* the back peer closes its sending side
BackClose ==
    /\ Running /\ ~backClosed
    /\ backClosed' = TRUE
    /\ UNCHANGED <<codecVars, histVars, utilVars, pc, content_offset, out_buf, readable, eof,
                   ocodec, osrc, oreadable, oeof, frontRx, backRx, frontClosed,
                   frontTx, backTx, wbuf, frontSent, backSent, backRead, nsent,
                   startIn, startOut, heldIn, heldOut, drainLen, offset0, wpart>>

\* a read or a write the task awaits ends in an error: `?` returns it
IoError ==
    /\ Running
    /\ pc \in {"select", "fb_select"} \cup WritingBack \cup WritingFront
    /\ pc' = "failed"
    /\ UNCHANGED <<codecVars, histVars, utilVars, content_offset, out_buf, readable, eof,
                   ocodec, osrc, oreadable, oeof, frontRx, backRx, frontClosed,
                   backClosed, frontTx, backTx, wbuf, frontSent, backSent, backRead,
                   nsent, startIn, startOut, heldIn, heldOut, drainLen, offset0, wpart>>

----------------------------------------------------------------------------
\* The phase before a relay: the caller reads and inspects records

\* the caller awaits inbound.next()
SniffNext ==
    /\ Running /\ pc = "sniff"
    /\ ~has_next(codec)
    /\ pc' = "sniff_in"
    /\ UNCHANGED <<codecVars, histVars, utilVars, content_offset, out_buf, readable, eof,
                   ocodec, osrc, oreadable, oeof, frontRx, backRx, frontClosed,
                   backClosed, frontTx, backTx, wbuf, frontSent, backSent, backRead,
                   nsent, startIn, startOut, heldIn, heldOut, drainLen, offset0, wpart>>

\* the caller consumes one record of inbound
SniffTake ==
    /\ Running /\ pc = "sniff"
    /\ has_next(codec) /\ NextRecordInBounds(codec)
    /\ codec' = next_record(codec)
    /\ UNCHANGED <<src, panicked, histVars, utilVars, relayVars>>

----------------------------------------------------------------------------
\* Framed::next on inbound, polled from the caller or from a relay's select!

\* mutant of OnFrameIn: the loop cuts the records at content_offset too
OnFrameInOffset(c) ==
    IF pc = "sniff_in"
    THEN [pc |-> "sniff", codec |-> c, wbuf |-> wbuf, panic |-> FALSE]
    ELSE IF pc = "select"
    THEN LET d == RunDrain(c, content_offset)
         IN  [pc |-> IF d.to = "write" THEN "write_back" ELSE "select",
              codec |-> d.codec, wbuf |-> d.wbuf, panic |-> d.to = "panic"]
    ELSE LET c2 == skip_to_end(c)
         IN  [pc |-> "fb_write_back", codec |-> c2, wbuf |-> raw_buf(c2),
              panic |-> ~Consumed(c2)]

\* what the task does with a frame of inbound, up to its next suspension:
\* [pc, codec, wbuf, panic]
OnFrameIn(c) ==
    IF pc = "sniff_in"
    THEN [pc |-> "sniff", codec |-> c, wbuf |-> wbuf, panic |-> FALSE]
    ELSE IF pc = "select"
    THEN LET d == RunDrain(c, HeaderLen)
         IN  [pc |-> IF d.to = "write" THEN "write_back" ELSE "select",
              codec |-> d.codec, wbuf |-> d.wbuf, panic |-> d.to = "panic"]
    ELSE LET c2 == skip_to_end(c)
         IN  [pc |-> "fb_write_back", codec |-> c2, wbuf |-> raw_buf(c2),
              panic |-> ~Consumed(c2)]

\* is_readable: decode what the read buffer holds
InDecode ==
    /\ Running /\ pc \in PollIn
    /\ readable
    /\ \E r \in {FramedDecode(codec, src, eof)} : \E h \in {OnFrameIn(r.codec)} :
           /\ src' = r.src
           /\ readable' = r.readable
           /\ IF r.ret = "panic"
              THEN panicked' = TRUE /\ UNCHANGED <<codec, pc, wbuf, wpart>>
              ELSE IF r.ret = "frame"
              THEN /\ codec' = h.codec
                   /\ wbuf' = h.wbuf
                   /\ wpart' = FALSE
                   /\ pc' = h.pc
                   /\ panicked' = h.panic
              ELSE /\ codec' = r.codec
                   /\ pc' = OnNoFrame(r.ret, pc)
                   /\ UNCHANGED <<panicked, wbuf, wpart>>
    /\ UNCHANGED <<histVars, utilVars, content_offset, out_buf, eof, ocodec, osrc, oreadable,
                   oeof, frontRx, backRx, frontClosed, backClosed, frontTx, backTx,
                   frontSent, backSent, backRead, nsent, startIn, startOut, heldIn,
                   heldOut, drainLen, offset0>>

\* not is_readable: a read of the front connection returns k bytes
InRead(k) ==
    /\ Running /\ pc \in PollIn
    /\ ~readable
    /\ k \in 1..Len(frontRx)
    /\ src' = src \o SubSeq(frontRx, 1, k)
    /\ frontRx' = DropFirst(frontRx, k)
    /\ readable' = TRUE
    /\ eof' = FALSE
    /\ UNCHANGED <<codec, panicked, histVars, utilVars, pc, content_offset, out_buf, ocodec,
                   osrc, oreadable, oeof, backRx, frontClosed, backClosed, frontTx,
                   backTx, wbuf, frontSent, backSent, backRead, nsent, startIn,
                   startOut, heldIn, heldOut, drainLen, offset0, wpart>>

\* not is_readable: a read of the front connection returns 0 bytes
InEof ==
    /\ Running /\ pc \in PollIn
    /\ ~readable
    /\ frontRx = <<>> /\ frontClosed
    /\ eof' = TRUE
    /\ readable' = TRUE
    /\ UNCHANGED <<codecVars, histVars, utilVars, pc, content_offset, out_buf, ocodec, osrc,
                   oreadable, oeof, frontRx, backRx, frontClosed, backClosed,
                   frontTx, backTx, wbuf, frontSent, backSent, backRead, nsent,
                   startIn, startOut, heldIn, heldOut, drainLen, offset0, wpart>>

----------------------------------------------------------------------------
\* copy_bidirectional

\* the call: out_buf is set up and the pending records are drained up to the
\* first write_all that has bytes to write
StartUnwrap(off) ==
    /\ Running /\ pc = "sniff"
    /\ \E d \in {RunDrain(codec, off)} :
           /\ codec' = d.codec
           /\ wbuf' = d.wbuf
           /\ panicked' = (d.to = "panic")
           /\ pc' = IF d.to = "write" THEN "write_back0"
                    ELSE IF d.to = "select" THEN "select" ELSE pc
           /\ content_offset' = d.off
    /\ out_buf' = OutBufInit
    /\ wpart' = FALSE
    /\ startIn' = Len(frontSent) - Len(frontRx) - Len(src)
    /\ heldIn' = DropFirst(codec.buf, codec.cursor)
    /\ drainLen' = 0
    /\ offset0' = off
    /\ UNCHANGED <<src, histVars, utilVars, readable, eof, ocodec, osrc, oreadable, oeof,
                   frontRx, backRx, frontClosed, backClosed, frontTx, backTx,
                   frontSent, backSent, backRead, nsent, startOut, heldOut>>

\* a write_all to back makes progress: the connection takes the next byte,
\* or all that is left; when nothing is left the task runs on to its next
\* suspension
WriteBack(k) ==
    /\ Running /\ pc \in {"write_back0", "write_back"}
    /\ k \in WriteSizes
    /\ wpart' = (k < Len(wbuf))
    /\ backTx' = backTx \o SubSeq(wbuf, 1, k)
    /\ drainLen' = IF pc = "write_back0" THEN Len(backTx') ELSE drainLen
    /\ UNCHANGED offset0
    /\ IF k < Len(wbuf)
       THEN /\ wbuf' = DropFirst(wbuf, k)
            /\ UNCHANGED <<codec, panicked, pc, content_offset>>
       ELSE \E d \in {RunDrain(codec, HeaderLen)} :
                /\ codec' = d.codec
                /\ wbuf' = d.wbuf
                /\ panicked' = (d.to = "panic")
                /\ pc' = IF d.to = "write" THEN pc
                         ELSE IF d.to = "select" THEN "select" ELSE pc
                /\ content_offset' = IF pc = "write_back0" THEN HeaderLen
                                     ELSE content_offset
    /\ UNCHANGED <<src, histVars, utilVars, out_buf, readable, eof, ocodec, osrc, oreadable,
                   oeof, frontRx, backRx, frontClosed, backClosed, frontTx,
                   frontSent, backSent, backRead, nsent, startIn, startOut, heldIn,
                   heldOut>>

\* select!'s second branch: outbound.read returns n > 0 bytes, they are
\* framed in out_buf and the write_all to front starts
BackRead(n) ==
    /\ Running /\ pc = "select"
    /\ n \in 1..Min(Len(backRx), OutBufSize - HeaderLen)
    /\ LET data == SubSeq(backRx, 1, n)
           framed == FrameHeader(ReadInto(out_buf, data), n)
       IN  /\ out_buf' = framed
           /\ wbuf' = Slice(framed, 0, n + HeaderLen)
           /\ backRead' = backRead \o data
    /\ backRx' = DropFirst(backRx, n)
    /\ pc' = "write_front"
    /\ wpart' = FALSE
    /\ UNCHANGED <<codecVars, histVars, utilVars, content_offset, readable, eof, ocodec, osrc,
                   oreadable, oeof, frontRx, frontClosed, backClosed, frontTx,
                   backTx, frontSent, backSent, nsent, startIn, startOut, heldIn,
                   heldOut, drainLen, offset0>>

\* select!'s second branch: outbound.read returns 0
BackReadEof ==
    /\ Running /\ pc = "select"
    /\ backRx = <<>> /\ backClosed
    /\ pc' = "failed"
    /\ UNCHANGED <<codecVars, histVars, utilVars, content_offset, out_buf, readable, eof,
                   ocodec, osrc, oreadable, oeof, frontRx, backRx, frontClosed,
                   backClosed, frontTx, backTx, wbuf, frontSent, backSent, backRead,
                   nsent, startIn, startOut, heldIn, heldOut, drainLen, offset0, wpart>>

\* mutant of WriteFront: a single write, taken for complete whatever the
\* connection accepted of it
WriteFrontShort(k) ==
    /\ Running /\ pc = "write_front"
    /\ k \in WriteSizes
    /\ wpart' = FALSE
    /\ frontTx' = frontTx \o SubSeq(wbuf, 1, k)
    /\ wbuf' = <<>>
    /\ pc' = "select"
    /\ UNCHANGED <<codecVars, histVars, utilVars, content_offset, out_buf, readable,
                   eof, ocodec, osrc, oreadable, oeof, frontRx, backRx, frontClosed,
                   backClosed, backTx, frontSent, backSent, backRead, nsent,
                   startIn, startOut, heldIn, heldOut, drainLen, offset0>>

\* the write_all to front makes progress: the connection takes the next
\* byte, or all that is left
WriteFront(k) ==
    /\ Running /\ pc = "write_front"
    /\ k \in WriteSizes
    /\ wpart' = (k < Len(wbuf))
    /\ frontTx' = frontTx \o SubSeq(wbuf, 1, k)
    /\ wbuf' = DropFirst(wbuf, k)
    /\ pc' = IF k < Len(wbuf) THEN pc ELSE "select"
    /\ UNCHANGED <<codecVars, histVars, utilVars, content_offset, out_buf, readable, eof,
                   ocodec, osrc, oreadable, oeof, frontRx, backRx, frontClosed,
                   backClosed, backTx, frontSent, backSent, backRead, nsent,
                   startIn, startOut, heldIn, heldOut, drainLen, offset0>>

InitRelay ==
    /\ codec = new
    /\ src = <<>>
    /\ panicked = FALSE
    /\ RelayInit
    /\ HistInit
    /\ UtilIdle

NextUnwrap ==
    \/ \E p \in Payloads : FrontSend(p)
    \/ \E b \in Byte : BackSendByte(b)
    \/ FrontClose
    \/ BackClose
    \/ IoError
    \/ SniffNext
    \/ SniffTake
    \/ InDecode
    \/ \E k \in 1..Len(frontRx) : InRead(k)
    \/ InEof
    \/ \E off \in Offsets : StartUnwrap(off)
    \/ \E k \in WriteSizes : WriteBack(k)
    \/ \E n \in 1..Len(backRx) : BackRead(n)
    \/ BackReadEof
    \/ \E k \in WriteSizes : WriteFront(k)

SpecUnwrap == InitRelay /\ [][NextUnwrap]_vars

\* The runtime polls the task whenever what it awaits is ready, select!
\* picks among its ready branches at random, and the connections take the
\* bytes written to them.
SpecUnwrapFair ==
    /\ SpecUnwrap
    /\ WF_vars(InDecode)
    /\ WF_vars(\E k \in 1..Len(frontRx) : InRead(k))
    /\ WF_vars(InEof)
    /\ WF_vars(\E k \in WriteSizes : WriteBack(k))
    /\ WF_vars(\E k \in WriteSizes : WriteFront(k))
    /\ WF_vars(\E n \in 1..Len(backRx) : BackRead(n))
    /\ WF_vars(BackReadEof)

----------------------------------------------------------------------------
\* copy_bidirectional_fallback

\* the front peer sends one byte, aligned to no record
FrontSendByte(b) ==
    /\ Running /\ ~frontClosed
    /\ pc \notin {"sniff", "sniff_in", "sniff_out"}
    /\ nsent < MaxSends
    /\ frontRx' = Append(frontRx, b)
    /\ frontSent' = Append(frontSent, b)
    /\ nsent' = nsent + 1
    /\ UNCHANGED <<codecVars, histVars, utilVars, pc, content_offset, out_buf, readable, eof,
                   ocodec, osrc, oreadable, oeof, backRx, frontClosed, backClosed,
                   frontTx, backTx, wbuf, backSent, backRead, startIn, startOut,
                   heldIn, heldOut, drainLen, offset0, wpart>>

\* the back peer, a TLS endpoint here, sends one record
BackSend(p) ==
    /\ Running /\ ~backClosed
    /\ nsent < MaxSends
    /\ backRx' = backRx \o Record(p)
    /\ backSent' = backSent \o Record(p)
    /\ nsent' = nsent + 1
    /\ UNCHANGED <<codecVars, histVars, utilVars, pc, content_offset, out_buf, readable, eof,
                   ocodec, osrc, oreadable, oeof, frontRx, frontClosed, backClosed,
                   frontTx, backTx, wbuf, frontSent, backRead, startIn, startOut,
                   heldIn, heldOut, drainLen, offset0, wpart>>

\* the caller awaits outbound.next()
SniffNextOut ==
    /\ Running /\ pc = "sniff"
    /\ ~has_next(ocodec)
    /\ pc' = "sniff_out"
    /\ UNCHANGED <<codecVars, histVars, utilVars, content_offset, out_buf, readable, eof,
                   ocodec, osrc, oreadable, oeof, frontRx, backRx, frontClosed,
                   backClosed, frontTx, backTx, wbuf, frontSent, backSent, backRead,
                   nsent, startIn, startOut, heldIn, heldOut, drainLen, offset0, wpart>>

\* the caller consumes one record of outbound
SniffTakeOut ==
    /\ Running /\ pc = "sniff"
    /\ has_next(ocodec) /\ NextRecordInBounds(ocodec)
    /\ ocodec' = next_record(ocodec)
    /\ UNCHANGED <<codecVars, histVars, utilVars, pc, content_offset, out_buf, readable, eof,
                   osrc, oreadable, oeof, frontRx, backRx, frontClosed, backClosed,
                   frontTx, backTx, wbuf, frontSent, backSent, backRead, nsent,
                   startIn, startOut, heldIn, heldOut, drainLen, offset0, wpart>>

\* mutant of OldContent: only the records not yet consumed are forwarded
OldContentPending(c) ==
    IF has_next(c)
    THEN [write |-> TRUE, codec |-> skip_to_end(c),
          wbuf |-> DropFirst(c.buf, c.cursor), panic |-> FALSE]
    ELSE [write |-> FALSE, codec |-> c, wbuf |-> <<>>, panic |-> FALSE]

\* `if has_content() { skip_to_end(); write_all(raw_buf()) }` on codec c
\* (lines 230-240, 241-251): [write, codec, wbuf, panic]
OldContent(c) ==
    IF has_content(c)
    THEN [write |-> TRUE, codec |-> skip_to_end(c),
          wbuf |-> raw_buf(skip_to_end(c)), panic |-> ~Consumed(skip_to_end(c))]
    ELSE [write |-> FALSE, codec |-> c, wbuf |-> <<>>, panic |-> FALSE]

\* the call: both codecs are switched off and what inbound's codec holds is
\* handed to a write_all to back; with nothing held, outbound's is looked at
StartFallback ==
    /\ Running /\ pc = "sniff"
    /\ \E i \in {OldContent([codec EXCEPT !.enable_codec = FALSE])} :
       \E o \in {OldContent([ocodec EXCEPT !.enable_codec = FALSE])} :
           /\ codec' = i.codec
           /\ IF i.write
              THEN /\ wbuf' = i.wbuf
                   /\ pc' = "fb_old_back"
                   /\ ocodec' = [ocodec EXCEPT !.enable_codec = FALSE]
                   /\ panicked' = i.panic
              ELSE /\ wbuf' = o.wbuf
                   /\ pc' = IF o.write THEN "fb_old_front" ELSE "fb_select"
                   /\ ocodec' = o.codec
                   /\ panicked' = o.panic
    /\ wpart' = FALSE
    /\ startIn' = Len(frontSent) - Len(frontRx) - Len(src)
    /\ startOut' = Len(backSent) - Len(backRx) - Len(osrc)
    /\ heldIn' = codec.buf
    /\ heldOut' = ocodec.buf
    /\ UNCHANGED <<src, histVars, utilVars, content_offset, out_buf, readable, eof, osrc,
                   oreadable, oeof, frontRx, backRx, frontClosed, backClosed,
                   frontTx, backTx, frontSent, backSent, backRead, nsent, drainLen, offset0>>

\* is_readable on outbound: decode what its read buffer holds; a frame in
\* the relay is forwarded whole (lines 274-275)
OutDecode ==
    /\ Running /\ pc \in PollOut
    /\ oreadable
    /\ \E r \in {FramedDecode(ocodec, osrc, oeof)} :
           /\ osrc' = r.src
           /\ oreadable' = r.readable
           /\ IF r.ret = "panic"
              THEN panicked' = TRUE /\ UNCHANGED <<ocodec, pc, wbuf, wpart>>
              ELSE IF r.ret = "frame"
              THEN IF pc = "sniff_out"
                   THEN /\ ocodec' = r.codec
                        /\ pc' = "sniff"
                        /\ UNCHANGED <<panicked, wbuf, wpart>>
                   ELSE /\ ocodec' = skip_to_end(r.codec)
                        /\ wbuf' = raw_buf(skip_to_end(r.codec))
                        /\ wpart' = FALSE
                        /\ pc' = "fb_write_front"
                        /\ panicked' = ~Consumed(skip_to_end(r.codec))
              ELSE /\ ocodec' = r.codec
                   /\ pc' = OnNoFrame(r.ret, pc)
                   /\ UNCHANGED <<panicked, wbuf, wpart>>
    /\ UNCHANGED <<codec, src, histVars, utilVars, content_offset, out_buf, readable, eof,
                   oeof, frontRx, backRx, frontClosed, backClosed, frontTx, backTx,
                   frontSent, backSent, backRead, nsent, startIn, startOut, heldIn,
                   heldOut, drainLen, offset0>>

\* not is_readable on outbound: a read of the back connection returns k bytes
OutRead(k) ==
    /\ Running /\ pc \in PollOut
    /\ ~oreadable
    /\ k \in 1..Len(backRx)
    /\ osrc' = osrc \o SubSeq(backRx, 1, k)
    /\ backRx' = DropFirst(backRx, k)
    /\ oreadable' = TRUE
    /\ oeof' = FALSE
    /\ UNCHANGED <<codecVars, histVars, utilVars, pc, content_offset, out_buf, readable, eof,
                   ocodec, frontRx, frontClosed, backClosed, frontTx, backTx, wbuf,
                   frontSent, backSent, backRead, nsent, startIn, startOut, heldIn,
                   heldOut, drainLen, offset0, wpart>>

\* not is_readable on outbound: a read of the back connection returns 0 bytes
OutEof ==
    /\ Running /\ pc \in PollOut
    /\ ~oreadable
    /\ backRx = <<>> /\ backClosed
    /\ oeof' = TRUE
    /\ oreadable' = TRUE
    /\ UNCHANGED <<codecVars, histVars, utilVars, pc, content_offset, out_buf, readable, eof,
                   ocodec, osrc, frontRx, backRx, frontClosed, backClosed, frontTx,
                   backTx, wbuf, frontSent, backSent, backRead, nsent, startIn,
                   startOut, heldIn, heldOut, drainLen, offset0, wpart>>

\* a write_all to back's connection makes progress; once the old content of
\* inbound is written, outbound's is looked at (line 241)
FbWriteBack(k) ==
    /\ Running /\ pc \in {"fb_old_back", "fb_write_back"}
    /\ k \in WriteSizes
    /\ wpart' = (k < Len(wbuf))
    /\ backTx' = backTx \o SubSeq(wbuf, 1, k)
    /\ IF k < Len(wbuf)
       THEN /\ wbuf' = DropFirst(wbuf, k)
            /\ UNCHANGED <<ocodec, panicked, pc>>
       ELSE IF pc = "fb_write_back"
       THEN /\ wbuf' = <<>>
            /\ pc' = "fb_select"
            /\ UNCHANGED <<ocodec, panicked>>
       ELSE \E o \in {OldContent(ocodec)} :
                /\ wbuf' = o.wbuf
                /\ pc' = IF o.write THEN "fb_old_front" ELSE "fb_select"
                /\ ocodec' = o.codec
                /\ panicked' = o.panic
    /\ UNCHANGED <<codec, src, histVars, utilVars, content_offset, out_buf, readable, eof,
                   osrc, oreadable, oeof, frontRx, backRx, frontClosed, backClosed,
                   frontTx, frontSent, backSent, backRead, nsent, startIn, startOut,
                   heldIn, heldOut, drainLen, offset0>>

\* a write_all to front's connection makes progress
FbWriteFront(k) ==
    /\ Running /\ pc \in {"fb_old_front", "fb_write_front"}
    /\ k \in WriteSizes
    /\ wpart' = (k < Len(wbuf))
    /\ frontTx' = frontTx \o SubSeq(wbuf, 1, k)
    /\ wbuf' = DropFirst(wbuf, k)
    /\ pc' = IF k < Len(wbuf) THEN pc ELSE "fb_select"
    /\ UNCHANGED <<codecVars, histVars, utilVars, content_offset, out_buf, readable, eof,
                   ocodec, osrc, oreadable, oeof, frontRx, backRx, frontClosed,
                   backClosed, backTx, frontSent, backSent, backRead, nsent,
                   startIn, startOut, heldIn, heldOut, drainLen, offset0>>

NextFallback ==
    \/ \E p \in Payloads : nsent < MaxChunks /\ FrontSend(p)
    \/ \E b \in Byte : nsent < MaxChunks /\ FrontSendByte(b)
    \/ \E p \in Payloads : nsent < MaxChunks /\ BackSend(p)
    \/ \E b \in Byte : nsent < MaxChunks /\ BackSendByte(b)
    \/ FrontClose
    \/ BackClose
    \/ IoError
    \/ SniffNext
    \/ SniffTake
    \/ SniffNextOut
    \/ SniffTakeOut
    \/ InDecode
    \/ \E k \in 1..Len(frontRx) : InRead(k)
    \/ InEof
    \/ OutDecode
    \/ \E k \in 1..Len(backRx) : OutRead(k)
    \/ OutEof
    \/ StartFallback
    \/ \E k \in WriteSizes : FbWriteBack(k)
    \/ \E k \in WriteSizes : FbWriteFront(k)

SpecFallback == InitRelay /\ [][NextFallback]_vars

\* The runtime polls the task whenever what it awaits is ready, select!
\* picks among its ready branches at random, and the connections take the
\* bytes written to them.
SpecFallbackFair ==
    /\ SpecFallback
    /\ WF_vars(InDecode)
    /\ WF_vars(\E k \in 1..Len(frontRx) : InRead(k))
    /\ WF_vars(InEof)
    /\ WF_vars(OutDecode)
    /\ WF_vars(\E k \in 1..Len(backRx) : OutRead(k))
    /\ WF_vars(OutEof)
    /\ WF_vars(\E k \in WriteSizes : FbWriteBack(k))
    /\ WF_vars(\E k \in WriteSizes : FbWriteFront(k))

----------------------------------------------------------------------------
\* The helpers

\* the sequences over S of length at most n
SeqsUpTo(S, n) == UNION {[1..k -> S] : k \in 0..n}

\* a ^ b on u8
RECURSIVE BitXor(_, _)
BitXor(a, b) ==
    IF a = 0 /\ b = 0 THEN 0
    ELSE (((a % 2) + (b % 2)) % 2) + 2 * BitXor(a \div 2, b \div 2)

\* mutant of xor_bytes: the bytes are added, not xored
xor_bytes_add(s, m) ==
    [i \in 1..Len(m) |->
        IF i <= Min(Len(s), Len(m)) THEN (m[i] + s[i]) % 256 ELSE m[i]]

\* xor_bytes: msg after `for i in 0..min(secret.len(), msg.len())
\* { msg[i] = msg[i] ^ secret[i] }`
xor_bytes(s, m) ==
    [i \in 1..Len(m) |->
        IF i <= Min(Len(s), Len(m)) THEN BitXor(m[i], s[i]) ELSE m[i]]

\* every secret and msg within the bounds
InitXor ==
    /\ secret \in SeqsUpTo(UtilByte, MaxSecret)
    /\ msg \in SeqsUpTo(UtilByte, MaxMsg)
    /\ msg0 = msg
    /\ xors = 0
    /\ lbuf = [data |-> <<>>, split |-> 0] /\ lbuf0 = lbuf
    /\ called = [fn |-> "none"]

\* one call xor_bytes(secret, msg)
XorBytes ==
    /\ xors < 2
    /\ lbuf0.data = <<>>
    /\ msg' = xor_bytes(secret, msg)
    /\ xors' = xors + 1
    /\ UNCHANGED <<codecVars, histVars, relayVars, secret, msg0, lbuf, lbuf0, called>>

\* A `T: Buf`: data, the bytes that remain, and split, how many of them the
\* current chunk holds when they are not contiguous (a Chain of two
\* slices); split = 0: all of them are in one chunk.
remaining(b) == Len(b.data)

\* Buf::chunk: the current contiguous slice
chunk(b) == IF b.split > 0 THEN SubSeq(b.data, 1, b.split) ELSE b.data

\* Buf::advance(n), n <= remaining
advance(b, n) ==
    [data |-> DropFirst(b.data, n),
     split |-> IF b.split > n THEN b.split - n ELSE 0]

\* `len = (len << 8) | tmp[i]` over the header bytes hdr
RECURSIVE BigEndian(_)
BigEndian(hdr) ==
    IF hdr = <<>> THEN 0
    ELSE BigEndian(SubSeq(hdr, 1, Len(hdr) - 1)) * 256 + hdr[Len(hdr)]

\* what a helper whose call panicked leaves
Panicked(fn, N, b) ==
    [fn |-> fn, N |-> N, panic |-> TRUE, ret |-> 0, got |-> <<>>, buf |-> b]

\* read_length_padded_header::<N>: copy_to_slice panics on fewer than N bytes
read_length_padded_header(N, b) ==
    IF remaining(b) < N THEN Panicked("read_length_padded_header", N, b)
    ELSE [fn |-> "read_length_padded_header", N |-> N, panic |-> FALSE,
          ret |-> BigEndian(SubSeq(b.data, 1, N)), got |-> <<>>,
          buf |-> advance(b, N)]

\* skip_length_padded::<N>: advance panics past the end
skip_length_padded(N, b) ==
    LET h == read_length_padded_header(N, b)
    IN  IF h.panic \/ remaining(h.buf) < h.ret
        THEN Panicked("skip_length_padded", N, h.buf)
        ELSE [h EXCEPT !.fn = "skip_length_padded", !.buf = advance(h.buf, h.ret)]

\* read_length_padded::<N> into copy_to of dest bytes: got is copy_to[..len]
read_length_padded(N, b, dest) ==
    LET h == read_length_padded_header(N, b)
    IN  IF h.panic \/ dest < h.ret \/ remaining(h.buf) < h.ret
        THEN Panicked("read_length_padded", N, h.buf)
        ELSE [h EXCEPT !.fn = "read_length_padded",
                       !.got = SubSeq(h.buf.data, 1, h.ret),
                       !.buf = advance(h.buf, h.ret)]

\* extend_from_length_prefixed::<N>: got is what copy_to was extended by;
\* `&buf.chunk()[..len]` panics when the chunk is shorter than len
extend_from_length_prefixed(N, b) ==
    LET h == read_length_padded_header(N, b)
    IN  IF h.panic \/ Len(chunk(h.buf)) < h.ret
        THEN Panicked("extend_from_length_prefixed", N, h.buf)
        ELSE [h EXCEPT !.fn = "extend_from_length_prefixed",
                       !.got = SubSeq(chunk(h.buf), 1, h.ret),
                       !.buf = advance(h.buf, h.ret)]

\* length_prefixed::<N>: got is the slice under the Cursor handed to parse,
\* which cannot reach the source
length_prefixed(N, b) ==
    LET h == read_length_padded_header(N, b)
    IN  IF h.panic \/ Len(chunk(h.buf)) < h.ret
        THEN Panicked("length_prefixed", N, h.buf)
        ELSE [h EXCEPT !.fn = "length_prefixed",
                       !.got = SubSeq(chunk(h.buf), 1, h.ret),
                       !.buf = advance(h.buf, h.ret)]

u8_length_prefixed(b) == length_prefixed(1, b)
u16_length_prefixed(b) == length_prefixed(2, b)

\* every source within the bounds, contiguous or split in two chunks
InitLen ==
    /\ lbuf \in {[data |-> d, split |-> k] :
                    d \in SeqsUpTo(LenByte, MaxBuf), k \in 0..MaxBuf}
    /\ lbuf.split < Len(lbuf.data)
    /\ lbuf0 = lbuf
    /\ called = [fn |-> "none"]
    /\ secret = <<>> /\ msg = <<>> /\ msg0 = <<>> /\ xors = 0

\* no helper has been called on lbuf yet
Uncalled == called.fn = "none" /\ secret = <<>> /\ msg0 = <<>>

lenRest == <<codecVars, histVars, relayVars, secret, msg, msg0, xors, lbuf0>>

\* r, and the length of the destination the call was given
WithDest(r, dest) ==
    [fn |-> r.fn, N |-> r.N, panic |-> r.panic, ret |-> r.ret, got |-> r.got,
     buf |-> r.buf, dest |-> dest]

\* one call of each helper on lbuf
ReadLengthPaddedHeader(N) ==
    /\ Uncalled
    /\ called' = read_length_padded_header(N, lbuf)
    /\ lbuf' = called'.buf
    /\ UNCHANGED lenRest

SkipLengthPadded(N) ==
    /\ Uncalled
    /\ called' = skip_length_padded(N, lbuf)
    /\ lbuf' = called'.buf
    /\ UNCHANGED lenRest

ReadLengthPadded(N, dest) ==
    /\ Uncalled
    /\ called' = WithDest(read_length_padded(N, lbuf, dest), dest)
    /\ lbuf' = called'.buf
    /\ UNCHANGED lenRest

ExtendFromLengthPrefixed(N) ==
    /\ Uncalled
    /\ called' = extend_from_length_prefixed(N, lbuf)
    /\ lbuf' = called'.buf
    /\ UNCHANGED lenRest

U8LengthPrefixed ==
    /\ Uncalled
    /\ called' = u8_length_prefixed(lbuf)
    /\ lbuf' = called'.buf
    /\ UNCHANGED lenRest

U16LengthPrefixed ==
    /\ Uncalled
    /\ called' = u16_length_prefixed(lbuf)
    /\ lbuf' = called'.buf
    /\ UNCHANGED lenRest

InitUtil ==
    /\ codec = new
    /\ src = <<>>
    /\ panicked = FALSE
    /\ RelayInit
    /\ HistInit
    /\ (InitXor \/ InitLen)

NextUtil ==
    \/ XorBytes
    \/ \E N \in {1, 2} : ReadLengthPaddedHeader(N)
    \/ \E N \in {1, 2} : SkipLengthPadded(N)
    \/ \E N \in {1, 2} : \E dest \in 0..MaxDest : ReadLengthPadded(N, dest)
    \/ \E N \in {1, 2} : ExtendFromLengthPrefixed(N)
    \/ U8LengthPrefixed
    \/ U16LengthPrefixed

SpecUtil == InitUtil /\ [][NextUtil]_vars

----------------------------------------------------------------------------
\* Either relay: the caller hands its streams to copy_bidirectional or to
\* copy_bidirectional_fallback

NextRelays ==
    \/ NextFallback
    \/ \E off \in Offsets : StartUnwrap(off)
    \/ \E k \in WriteSizes : WriteBack(k)
    \/ \E n \in 1..Len(backRx) : BackRead(n)
    \/ BackReadEof
    \/ \E k \in WriteSizes : WriteFront(k)

SpecRelays == InitRelay /\ [][NextRelays]_vars

----------------------------------------------------------------------------
\* Reference notions the properties are stated with

\* the head of s is a record whose full span (header and payload) is in s
HeadComplete(s) ==
    /\ Len(s) >= HeaderLen
    /\ Len(s) >= HeaderLen + LengthField(s, 0)

\* the whole records at the front of s, in order
RECURSIVE WholeRecords(_)
WholeRecords(s) ==
    IF HeadComplete(s)
    THEN LET n == HeaderLen + LengthField(s, 0)
         IN  <<Slice(s, 0, n)>> \o WholeRecords(DropFirst(s, n))
    ELSE <<>>

\* the offsets of s at which a whole record ends, and 0
RECURSIVE Boundaries(_, _)
Boundaries(s, o) ==
    {o} \cup (IF HeadComplete(DropFirst(s, o))
              THEN Boundaries(s, o + HeaderLen + LengthField(s, o))
              ELSE {})

\* the records a caller's `while has_next() { next_record() }` loop returns
RECURSIVE Drain(_)
Drain(c) ==
    IF has_next(c) THEN <<NextRecordView(c)>> \o Drain(next_record(c)) ELSE <<>>

\* the records of one decode cycle over the unsplit stream s
OneCycle(s) == Drain([new EXCEPT !.buf = decode(new, s).buf])

\* the last n elements of ss
LastN(ss, n) == SubSeq(ss, Len(ss) - n + 1, Len(ss))

AfterDecode == lastOp = "decode" /\ codec.enable_codec /\ ~panicked

----------------------------------------------------------------------------
\* C1: in enabled mode, whatever the chunks the stream arrived in, once a
\* decode cycle has run after the last arrival and every record has been
\* taken with next_record, the records returned so far are exactly, and in
\* order, those of one decode cycle over the whole stream.
RecordReassembly ==
    (codec.enable_codec /\ ~panicked /\ fresh /\ ~has_next(codec))
        => out = OneCycle(stream)

\* two records returned by two different decode cycles
RecordReassemblyWitness ==
    /\ codec.enable_codec /\ ~panicked /\ fresh /\ ~has_next(codec)
    /\ Len(out) = 2 /\ taken = 1 /\ src # <<>>

\* C2: an enabled-mode decode cycle removes from the source a span that ends
\* on a record boundary of what was available; the buffer holds that span,
\* the bytes after it stay in the source unchanged, and "no data yet" leaves
\* the source as it was.
NoOverRead ==
    AfterDecode =>
        /\ preSrc = codec.buf \o src
        /\ Len(codec.buf) \in Boundaries(preSrc, 0)
        /\ lastRes = "none" => src = preSrc

\* a cycle that took a record and left an incomplete one behind
NoOverReadWitness ==
    AfterDecode /\ lastRes = "ready" /\ Len(src) > HeaderLen

\* C3: an enabled-mode decode cycle signals "records ready" exactly when the
\* record at the head of the source is complete (at least 5 + L bytes are
\* available), and then that record is in the buffer.
EventualConsumption ==
    AfterDecode =>
        /\ lastRes = "ready" <=> HeadComplete(preSrc)
        /\ HeadComplete(preSrc) =>
               IsPrefix(Slice(preSrc, 0, HeaderLen + LengthField(preSrc, 0)),
                        codec.buf)

\* C8: reset and raw_buf abort whenever cursor differs from len(buffer);
\* otherwise reset leaves the buffer empty with cursor 0 (has_next and
\* has_content false) and raw_buf returns the whole buffer and changes
\* nothing.
ResetInvariant ==
    [][/\ lastOp' = "reset" =>
            IF codec.cursor # Len(codec.buf)
            THEN panicked'
            ELSE /\ ~panicked'
                 /\ codec'.buf = <<>> /\ codec'.cursor = 0
                 /\ ~has_next(codec') /\ ~has_content(codec')
       /\ lastOp' = "raw_buf" =>
            IF codec.cursor # Len(codec.buf)
            THEN panicked'
            ELSE /\ ~panicked'
                 /\ view' = codec.buf
                 /\ codec' = codec /\ src' = src]_vars

\* a reset that succeeded after two records were consumed
ResetInvariantWitness ==
    lastOp = "reset" /\ ~panicked /\ taken = 2 /\ codec.buf = <<>>

\* C9: right after an enabled-mode decode cycle that signals "records
\* ready", cursor is 0 and the buffer is a non-empty concatenation of whole
\* records, the last one ending exactly at len(buffer).
WholeRecordBuffer ==
    (AfterDecode /\ lastRes = "ready") =>
        /\ codec.cursor = 0
        /\ codec.buf # <<>>
        /\ Concat(WholeRecords(codec.buf)) = codec.buf

\* a buffer of two records
WholeRecordBufferWitness ==
    AfterDecode /\ lastRes = "ready" /\ Len(WholeRecords(codec.buf)) = 2

\* C10: in enabled mode the records next_record returns are, in order, the
\* records of the byte stream; after a cycle that captured k records
\* has_next is true until exactly k have been taken; each view is 5 + its
\* length field long and cursor has advanced by exactly the spans taken.
ConsumptionOrder ==
    (codec.enable_codec /\ ~panicked) =>
        /\ IsPrefix(out, WholeRecords(stream))
        /\ has_content(codec) =>
              /\ has_next(codec) <=> taken < Len(WholeRecords(codec.buf))
              /\ taken <= Len(out)
              /\ codec.cursor = Len(Concat(LastN(out, taken)))
        /\ lastOp = "next_record" =>
              /\ view = out[Len(out)]
              /\ Len(view) = HeaderLen + LengthField(view, 0)

\* two records taken from one cycle, three bytes of a third left pending
ConsumptionOrderWitness ==
    /\ codec.enable_codec /\ ~panicked
    /\ lastOp = "next_record" /\ taken = 2 /\ ~has_next(codec)
    /\ Len(src) = 3

----------------------------------------------------------------------------
\* The relays

\* a relay has been called
Started == pc \notin {"sniff", "sniff_in", "sniff_out"}

\* the payloads of the records recs, concatenated
RECURSIVE PayloadsOf(_)
PayloadsOf(recs) ==
    IF recs = <<>> THEN <<>>
    ELSE DropFirst(Head(recs), HeaderLen) \o PayloadsOf(Tail(recs))

\* the payload bytes of the complete records front sent after those the
\* caller's codec had taken before the relay
ArrivedPayload == PayloadsOf(WholeRecords(DropFirst(frontSent, startIn)))

\* the bytes written to back by the relay loop (after the initial drain)
LoopTx == DropFirst(backTx, drainLen)

\* s is a sequence of whole application-data records (0x17 0x03 0x03, a
\* big-endian length, that many payload bytes), none longer than out_buf
\* allows
RECURSIVE IsAppDataRecords(_)
IsAppDataRecords(s) ==
    \/ s = <<>>
    \/ /\ Len(s) >= HeaderLen
       /\ s[1] = 23 /\ s[2] = 3 /\ s[3] = 3
       /\ LengthField(s, 0) <= OutBufSize - HeaderLen
       /\ Len(s) >= HeaderLen + LengthField(s, 0)
       /\ IsAppDataRecords(DropFirst(s, HeaderLen + LengthField(s, 0)))

\* the bytes handed to write_all on front so far
FrontWire == frontTx \o (IF pc = "write_front" THEN wbuf ELSE <<>>)

\* C4: the bytes the unwrap relay's loop writes to back are at every moment
\* a prefix of the payloads of the complete records that arrived on front,
\* in order; and unless the relay ends first it always catches up: a state
\* is reached where every payload byte that has arrived is written (so, the
\* arrived payload only growing, each of its bytes is eventually written).
UnwrapFrontToBack ==
    /\ [](Started => IsPrefix(LoopTx, ArrivedPayload))
    /\ Started ~> (LoopTx = ArrivedPayload \/ ~Running)

\* the payloads of two records, decoded in the loop, written to back while
\* back-readable traffic went the other way
UnwrapFrontToBackWitness ==
    /\ Running /\ pc = "select"
    /\ Len(WholeRecords(DropFirst(frontSent, startIn))) = 2
    /\ Len(LoopTx) >= 2 /\ LoopTx = ArrivedPayload
    /\ frontTx # <<>>

\* C5: between write_all calls the bytes written to front are whole
\* application-data records, each length field equal to its payload's length
\* and at most OutBufSize - 5, and their payloads concatenated are the bytes
\* read from back so far.
UnwrapBackToFront ==
    (Started /\ Running) =>
        /\ IsAppDataRecords(FrontWire)
        /\ PayloadsOf(WholeRecords(FrontWire)) = backRead
        /\ Concat(WholeRecords(FrontWire)) = FrontWire

\* two records written to front, the first filling out_buf, the second not
UnwrapBackToFrontWitness ==
    /\ Running /\ pc = "select"
    /\ Len(WholeRecords(frontTx)) = 2
    /\ Len(frontTx) = OutBufSize + HeaderLen + 1

\* C7: while a write_all to one side is incomplete, data readable on the
\* other side can still be read by the relay.
IndependentBackpressure ==
    /\ (Running /\ pc = "write_back" /\ backRx # <<>>)
          => ENABLED (\E n \in 1..Len(backRx) : BackRead(n))
    /\ (Running /\ pc = "write_front" /\ frontRx # <<>> /\ ~readable)
          => ENABLED (\E k \in 1..Len(frontRx) : InRead(k))

\* what back / front is to receive in the fallback relay: what the other
\* side's codec held when the relay was called, then every byte that side
\* sent that its codec had not yet taken
DueBack == heldIn \o DropFirst(frontSent, startIn)
DueFront == heldOut \o DropFirst(backSent, startOut)

FallbackStarted == pc \in {"fb_old_back", "fb_old_front", "fb_select",
                           "fb_write_back", "fb_write_front"}

\* C6: in the fallback relay the bytes written to each connection are at
\* every moment a prefix of what the other side's codec held at the call
\* followed by the bytes that side sent since, and unless the relay ends
\* first it always catches up with both.
PassthroughTransparency ==
    /\ [](Started => IsPrefix(backTx, DueBack) /\ IsPrefix(frontTx, DueFront))
    /\ FallbackStarted ~> ((backTx = DueBack /\ frontTx = DueFront) \/ ~Running)

\* held records forwarded to back, partly consumed ones included, then a
\* byte aligned to no record
PassthroughTransparencyWitness ==
    /\ Running /\ pc = "fb_select"
    /\ Len(heldIn) > Len(frontSent) - Len(heldIn) /\ frontSent # heldIn
    /\ backTx = DueBack
    /\ Len(backTx) > Len(heldIn)

----------------------------------------------------------------------------
\* C11: a relay that has seen the end of a stream has returned a failure
\* (there is no other way out of its loop and no retry); the step that
\* returns the failure writes no byte to either connection, and nothing is
\* written or resumed after it.
RelayTermination ==
    /\ []((Started /\ ((eof /\ ~readable) \/ (oeof /\ ~oreadable)))
             => pc = "failed")
    /\ [][pc' = "failed" => (frontTx' = frontTx /\ backTx' = backTx)]_vars
    /\ [][pc = "failed" => pc' = "failed"]_vars

\* a relay that forwarded bytes both ways has failed on the end of front's
\* stream
RelayTerminationWitness ==
    /\ pc = "failed" /\ ~panicked
    /\ eof /\ ~readable
    /\ backTx # <<>> /\ frontTx # <<>>

----------------------------------------------------------------------------
\* bit k (0 the lowest) of the byte b
Bit(b, k) == (b \div (2 ^ k)) % 2

\* C12: xor_bytes keeps msg's length, flips in msg[i], i below the shorter
\* of the two lengths, exactly the bits set in secret[i], and leaves every
\* later byte as it was; applied twice with the same secret it gives msg
\* back.
XorInvolution ==
    /\ Len(msg) = Len(msg0)
    /\ xors = 1 =>
          \A i \in 1..Len(msg) :
              IF i <= Len(secret)
              THEN \A k \in 0..7 :
                      (Bit(msg[i], k) # Bit(msg0[i], k)) <=> (Bit(secret[i], k) = 1)
              ELSE msg[i] = msg0[i]
    /\ xors = 2 => msg = msg0

\* a msg longer than its secret, xored twice, its first byte changed in
\* between
XorInvolutionWitness ==
    /\ xors = 2
    /\ Len(secret) = 2 /\ Len(msg) = 3
    /\ secret[1] = 90 /\ msg0[1] = 255 /\ msg = msg0

----------------------------------------------------------------------------
\* the records pending in front's codec when copy_bidirectional was called
PendingAtStart == WholeRecords(heldIn)

\* what the initial drain is to write: the first pending record from index
\* offset0 of its view, the later ones from index 5
DrainDue ==
    IF PendingAtStart = <<>> THEN <<>>
    ELSE DropFirst(Head(PendingAtStart), offset0)
             \o PayloadsOf(Tail(PendingAtStart))

\* the bytes written to back before the relay loop
DrainTx == Slice(backTx, 0, drainLen)

\* copy_bidirectional is in its select! loop, or in a write_all inside it
InLoop == pc \in {"select", "write_back", "write_front"}

\* C13: the bytes copy_bidirectional writes to back before its loop are at
\* every moment a prefix of the pending records taken in buffer order, the
\* first from index content_offset, the later ones from index 5, and are all
\* of them once the loop runs; what the loop writes is the decoded records
\* from index 5; the codec is not reset while the drain is writing and is
\* reset when the loop selects.
InitialDrain ==
    (Started /\ ~panicked) =>
        /\ Concat(PendingAtStart) = heldIn
        /\ IsPrefix(DrainTx, DrainDue)
        /\ InLoop => (DrainTx = DrainDue /\ IsPrefix(LoopTx, ArrivedPayload))
        /\ pc = "write_back0" => (codec.buf # <<>> /\ ~InLoop)
        /\ pc = "select" => (codec = reset(codec) /\ ~has_next(codec))

\* two records were pending, the first written from index 6, and a record
\* decoded in the loop has been written since
InitialDrainWitness ==
    /\ pc = "select" /\ ~panicked
    /\ Len(PendingAtStart) = 2 /\ offset0 = 6
    /\ Len(Head(PendingAtStart)) = 7
    /\ Len(PendingAtStart[2]) > HeaderLen
    /\ DrainTx = DrainDue
    /\ LoopTx # <<>>

----------------------------------------------------------------------------
\* the bytes of the first pending record the initial drain wrote to back
FirstDrained ==
    Slice(DrainTx, 0, drainLen - Len(PayloadsOf(Tail(PendingAtStart))))

\* C14 as claimed: content_offset counts payload bytes: of the first drained
\* record's payload, the leading bytes that did not reach back are
\* content_offset many (what reaches back is an end of the record's view).
ContentOffsetInPayload ==
    (InLoop /\ ~panicked /\ PendingAtStart # <<>>) =>
        LET payload == DropFirst(Head(PendingAtStart), HeaderLen)
        IN  Len(payload) - Min(Len(FirstDrained), Len(payload)) = offset0

\* C14 amended: content_offset counts bytes of the record's view, header
\* included, and is at most the view's length: the first drained record
\* reaches back as its view less its first content_offset bytes, so that
\* Len(view) - content_offset bytes of it are forwarded. The call panics
\* just when content_offset is greater than the view's length.
ContentOffsetInView ==
    /\ (Started /\ ~panicked /\ PendingAtStart # <<>>) =>
          /\ offset0 <= Len(Head(PendingAtStart))
          /\ InLoop =>
                /\ FirstDrained = DropFirst(Head(PendingAtStart), offset0)
                /\ Len(FirstDrained) = Len(Head(PendingAtStart)) - offset0
    /\ (pc = "sniff" /\ panicked) =>
          /\ PendingAtStart # <<>>
          /\ offset0 > Len(Head(PendingAtStart))

\* one record of two payload bytes was pending and content_offset was 6:
\* the second payload byte alone reached back
ContentOffsetInViewWitness ==
    /\ pc = "select" /\ ~panicked
    /\ Len(PendingAtStart) = 1 /\ offset0 = 6
    /\ Len(Head(PendingAtStart)) = 7
    /\ backTx = <<Head(PendingAtStart)[7]>>

----------------------------------------------------------------------------
\* the bytes front's / back's codec has taken since the relay was called
TakenIn == SubSeq(frontSent, startIn + 1, Len(frontSent) - Len(frontRx) - Len(src))
TakenOut == SubSeq(backSent, startOut + 1, Len(backSent) - Len(backRx) - Len(osrc))

\* C15: a relay reads or decodes from a source only where its loop selects,
\* and whenever it selects every write has completed: nothing decoded is
\* pending, and each connection has received, in order, all that was
\* decoded or read for it so far.
WriteBeforeRead ==
    /\ []((Running /\ pc = "select") =>
             /\ wbuf = <<>> /\ ~has_next(codec)
             /\ Concat(WholeRecords(TakenIn)) = TakenIn
             /\ LoopTx = PayloadsOf(WholeRecords(TakenIn))
             /\ PayloadsOf(WholeRecords(frontTx)) = backRead
             /\ Concat(WholeRecords(frontTx)) = frontTx)
    /\ []((Running /\ pc = "fb_select") =>
             /\ wbuf = <<>>
             /\ backTx = heldIn \o TakenIn
             /\ frontTx = heldOut \o TakenOut)
    /\ [][(Started /\ (src' # src \/ osrc' # osrc \/ backRead' # backRead))
              => pc \in {"select", "fb_select"}]_vars

\* the unwrap relay selects again after a record decoded from front and a
\* chunk read from back were both written out
WriteBeforeReadWitness ==
    /\ Running /\ pc = "select"
    /\ Len(WholeRecords(TakenIn)) = 1 /\ LoopTx # <<>>
    /\ backRead # <<>>

----------------------------------------------------------------------------
\* C16: with enable_codec false a decode cycle on a source that holds bytes
\* puts them all, as they are, in the buffer with cursor 0, empties the
\* source and returns Some, whatever the bytes are; on an empty source it
\* returns None.
DisabledDecode ==
    (lastOp = "decode" /\ ~codec.enable_codec /\ ~panicked) =>
        IF preSrc # <<>>
        THEN /\ codec.buf = preSrc /\ codec.cursor = 0
             /\ src = <<>>
             /\ lastRes = "ready"
        ELSE /\ lastRes = "none"
             /\ src = <<>> /\ codec.buf = <<>> /\ codec.cursor = 0

\* three bytes, fewer than a header, were taken as they came
DisabledDecodeWitness ==
    /\ lastOp = "decode" /\ ~codec.enable_codec /\ ~panicked
    /\ lastRes = "ready"
    /\ codec.buf = <<1, 0, 1>> /\ preSrc = <<1, 0, 1>>

----------------------------------------------------------------------------
\* C17: in the relays the cursor of either codec never passes the end of its
\* buffer, every decode cycle about to start finds the cursor at the end
\* (so the reset it starts with passes), and no reset or raw_buf assertion
\* has fired: the one panic there is comes from slicing the first pending
\* record at a content_offset beyond its length.
AssertionsHold ==
    /\ codec.cursor <= Len(codec.buf)
    /\ ocodec.cursor <= Len(ocodec.buf)
    /\ (Running /\ pc \in PollIn /\ readable) => Consumed(codec)
    /\ (Running /\ pc \in PollOut /\ oreadable) => Consumed(ocodec)
    /\ panicked =>
          /\ pc = "sniff" /\ has_next(codec)
          /\ offset0 > Len(NextRecordView(codec))

\* the fallback relay, entered with records in front's codec, has decoded
\* again since, and is about to once more
AssertionsHoldWitness ==
    /\ Running /\ pc = "fb_select" /\ readable
    /\ heldIn # <<>> /\ codec.buf # <<>> /\ codec.buf # heldIn
    /\ backTx = heldIn \o codec.buf

----------------------------------------------------------------------------
\* C18: a decode cycle started with the cursor short of the buffer's end
\* panics; started with the cursor at the end it does not, and when it
\* returns None, in either mode, the buffer is empty and the cursor 0, so
\* that has_content is false and raw_buf is empty whatever an earlier cycle
\* had stored.
DecodeClears ==
    [][(lastOp' = "decode" /\ vars' # vars) =>
          IF codec.cursor < Len(codec.buf)
          THEN panicked'
          ELSE /\ ~panicked'
               /\ lastRes' = "none" =>
                     /\ codec'.buf = <<>> /\ codec'.cursor = 0
                     /\ ~has_content(codec')
                     /\ raw_buf(codec') = <<>>]_vars

\* the records of an earlier cycle were all taken and the next cycle, three
\* bytes in the source, returned None on an empty buffer
DecodeClearsWitness ==
    /\ lastOp = "decode" /\ lastRes = "none" /\ ~panicked
    /\ Len(out) = 2 /\ Len(src) = 3
    /\ ~has_content(codec)

----------------------------------------------------------------------------
\* C19: when front's codec holds no pending record as copy_bidirectional is
\* called, whatever content_offset is, the call does not panic, nothing is
\* written before the loop, and back receives the records decoded in the
\* loop from index 5, the first one included: all of their payloads
\* whenever the loop selects.
OffsetOnlyForPending ==
    heldIn = <<>> =>
        /\ ~panicked
        /\ Started =>
              /\ drainLen = 0
              /\ IsPrefix(backTx, ArrivedPayload)
              /\ (pc = "select" /\ Running) =>
                    backTx = PayloadsOf(WholeRecords(TakenIn))

\* called with content_offset 6 and nothing pending, the relay has written
\* the whole payload of the first record decoded in its loop
OffsetOnlyForPendingWitness ==
    /\ pc = "select" /\ Running
    /\ heldIn = <<>> /\ offset0 = 6 /\ content_offset = 6
    /\ Len(WholeRecords(TakenIn)) = 1
    /\ backTx = <<0, 1>>

----------------------------------------------------------------------------
\* the N-byte header of the source b read as a big-endian number
HeaderOf(b, N) == IF N = 1 THEN b.data[1] ELSE b.data[1] * 256 + b.data[2]

\* the source held its header and the bytes the header counts
HeldRegion(N) ==
    /\ Len(lbuf0.data) >= N
    /\ Len(lbuf0.data) >= N + HeaderOf(lbuf0, N)

\* the bytes the header counts
Region(N) == SubSeq(lbuf0.data, N + 1, N + HeaderOf(lbuf0, N))

\* C20: called on a source that holds its N-byte header and the len bytes
\* it counts, read_length_padded_header returns len and takes the N bytes;
\* skip_length_padded returns len and takes N + len bytes;
\* read_length_padded panics on a destination shorter than len and else
\* returns len with those len bytes, N + len bytes taken;
\* extend_from_length_prefixed and length_prefixed hand over exactly those
\* len bytes and take N + len bytes.
LengthPrefixHelpers ==
    (called.fn # "none" /\ HeldRegion(called.N)) =>
        LET N == called.N
            len == HeaderOf(lbuf0, N)
            tookAll == lbuf.data = DropFirst(lbuf0.data, N + len)
        IN  CASE called.fn = "read_length_padded_header" ->
                    /\ ~called.panic /\ called.ret = len
                    /\ lbuf.data = DropFirst(lbuf0.data, N)
              [] called.fn = "skip_length_padded" ->
                    ~called.panic /\ called.ret = len /\ tookAll
              [] called.fn = "read_length_padded" ->
                    IF called.dest < len THEN called.panic
                    ELSE /\ ~called.panic /\ called.ret = len
                         /\ called.got = Region(N) /\ tookAll
              [] OTHER ->
                    ~called.panic /\ called.got = Region(N) /\ tookAll

====
